---- MODULE Spec2Model ----
(***************************************************************************)
(* Model of Code/read.py: the file readers of the scenario pipeline.       *)
(* Every reader is a one-shot function of its arguments and of the files   *)
(* it reads.  A behaviour is one call: the initial state holds the         *)
(* arguments and the file contents, the action of the called function      *)
(* computes what the call returns or raises.                               *)
(*                                                                         *)
(* A table is [cols |-> sequence of column names, rows |-> sequence of     *)
(* rows], a row a function from column name to value.  Text on which the   *)
(* code computes (split, zfill, int, str) is a sequence of one-character   *)
(* strings.                                                                *)
(***************************************************************************)
EXTENDS Integers, Sequences, FiniteSets, TLC

VARIABLES fn, args, fs, pc, inner, result, reads

vars == <<fn, args, fs, pc, inner, result, reads>>

\* ------------------------------------------------------------------ bounds
MaxRows == 2
NumDurations == 2
MaxYears == 2

\* ----------------------------------------------------------------- helpers
Range(s) == {s[i] : i \in 1..Len(s)}

SeqsUpTo(S, n) == UNION {[1..k -> S] : k \in 0..n}

\* Python's None, comparable with the text values it stands in for
None == <<"None">>

\* a file of the file system, and a path with no file
File(c) == [exists |-> TRUE, content |-> c]
Missing == [exists |-> FALSE, content |-> <<>>]

Return(v) == [kind |-> "return", value |-> v]
Raise(e) == [kind |-> "raise", exc |-> e]
NoOutcome == [kind |-> "none"]

Table(cols, rows) == [cols |-> cols, rows |-> rows]

\* ---------------------------------------------------------------- test_path
\* faulty variant: the wrapper swallows the exception and returns None
test_path_swallow(r) ==
    CASE r.kind = "return" -> Return(r.value)
      [] r.kind = "raise" -> Return(None)

\* def wrapped: try: r = f(...); return r / except Exception as e: raise e
test_path(r) ==
    CASE r.kind = "return" -> Return(r.value)
      [] r.kind = "raise" -> Raise(r.exc)

\* ------------------------------------------------------- parameters module
DurationNames == <<"1-d avg", "365-d avg", "total avg", "peak">>

\* from parameters import pwc_durations
pwc_durations == SubSeq(DurationNames, 1, NumDurations)

\* fields.fetch('pwc_id_fields')
pwc_id_fields == <<"line_num", "run_id">>

\* fields.fetch('pwc_run_id')
pwc_run_id == <<"scenario_id", "rep">>

\* ------------------------------------------------------------------ numbers
MaxInt32 == 2147483647
MinInt32 == -2147483647 - 1

\* faulty variant: the line number is left as read
Int32Keep(x) == x

\* x.astype(np.int32) - 1 for x within int32: the array arithmetic wraps
Int32Sub1(x) == IF x = MinInt32 THEN MaxInt32 ELSE x - 1

\* -------------------------------------------------------------------- split
RECURSIVE Split(_, _)
\* str.split(sep): the parts of s between the separators, empty parts kept
Split(s, sep) ==
    IF \A i \in 1..Len(s) : s[i] # sep
    THEN <<s>>
    ELSE LET i == CHOOSE i \in 1..Len(s) :
                    s[i] = sep /\ \A j \in 1..(i - 1) : s[j] # sep
         IN <<SubSeq(s, 1, i - 1)>> \o Split(SubSeq(s, i + 1, Len(s)), sep)

MaxOf(S) == CHOOSE m \in S : \A x \in S : x <= m

\* .str.split('_', expand=True): one column per part, as many columns as the
\* longest split, shorter rows filled with None
SplitExpand(column) ==
    LET parts == [i \in 1..Len(column) |-> Split(column[i], "_")]
        width == MaxOf({Len(parts[i]) : i \in 1..Len(column)})
    IN [i \in 1..Len(column) |->
          [k \in 1..width |-> IF k <= Len(parts[i]) THEN parts[i][k] ELSE None]]

\* ---------------------------------------------------------------------- melt
\* faulty variant: every block of rows takes the first value column
melt_first_duration(table, id_vars, value_vars) ==
    LET n == Len(table.rows)
        k == Len(value_vars)
    IN Table(id_vars \o <<"duration", "conc">>,
             [j \in 1..(n * k) |->
                LET d == value_vars[1]
                    r == table.rows[((j - 1) % n) + 1]
                IN [c \in Range(id_vars) \cup {"duration", "conc"} |->
                      IF c = "duration" THEN d
                      ELSE IF c = "conc" THEN r[d] ELSE r[c]]])

\* DataFrame.melt(id_vars, value_vars, var_name='duration', value_name='conc'):
\* one block of rows per value column, each block in row order
melt(table, id_vars, value_vars) ==
    LET n == Len(table.rows)
        k == Len(value_vars)
    IN Table(id_vars \o <<"duration", "conc">>,
             [j \in 1..(n * k) |->
                LET d == value_vars[((j - 1) \div n) + 1]
                    r == table.rows[((j - 1) % n) + 1]
                IN [c \in Range(id_vars) \cup {"duration", "conc"} |->
                      IF c = "duration" THEN d
                      ELSE IF c = "conc" THEN r[d] ELSE r[c]]])

\* ----------------------------------------------------------------- pwc_outfile
\* in_file = root.format(region, class_num, class_name, koc)
pwc_outfile_path(a) ==
    IF a.in_file # None THEN a.in_file
    ELSE <<IF a.preprocessed THEN "reconstituted_path" ELSE "pwc_scenario_path",
           a.region, a.class_num, a.class_name, a.koc>>

\* pd.read_csv(in_file, names=pwc_header, delimiter=r'\s+'): every line of the
\* file is a data row, its tokens named by pwc_header
read_pwc_lines(lines, pwc_header) ==
    Table(pwc_header,
          [i \in 1..Len(lines) |->
             [c \in Range(pwc_header) |->
                lines[i][CHOOSE k \in 1..Len(pwc_header) : pwc_header[k] = c]]])

\* the body of pwc_outfile, lines 198-219
pwc_outfile(a, file) ==
    LET pwc_header == pwc_id_fields \o pwc_durations
    IN IF ~file.exists THEN Raise("FileNotFoundError")
       ELSE IF ~a.preprocessed
       THEN IF file.content = <<>> THEN Raise("EmptyDataError")
            ELSE
            LET table0 == read_pwc_lines(file.content, pwc_header)
                \* table['line_num'] = table.line_num.astype(np.int32) - 1
                table1 == Table(table0.cols,
                                [i \in 1..Len(table0.rows) |->
                                   [table0.rows[i] EXCEPT
                                      !["line_num"] = Int32Sub1(@)]])
                \* data = table.pop('run_id').str.split('_', expand=True)
                data == SplitExpand([i \in 1..Len(table1.rows) |->
                                       table1.rows[i]["run_id"]])
                rest == SelectSeq(table1.cols, LAMBDA c : c # "run_id")
                names == <<"bunk">> \o pwc_run_id
            IN \* data.columns = ['bunk'] + fields.fetch('pwc_run_id')
               IF Len(data[1]) # Len(names) THEN Raise("ValueError")
               ELSE
               LET \* table = pd.concat([data, table], axis=1)
                   cols == names \o rest
                   wide == Table(cols,
                                 [i \in 1..Len(table1.rows) |->
                                    [c \in Range(cols) |->
                                       IF c \in Range(names)
                                       THEN data[i][CHOOSE k \in 1..Len(names) :
                                                       names[k] = c]
                                       ELSE table1.rows[i][c]]])
                   id_vars == SelectSeq(wide.cols,
                                          LAMBDA c : c \notin Range(pwc_durations))
               IN Return(melt(wide, id_vars, pwc_durations))
       ELSE \* table = pd.read_csv(in_file)
            Return(Table(file.content.cols, file.content.rows))

\* --------------------------------------------------------------------- text
Digits == <<"0", "1", "2", "3", "4", "5", "6", "7", "8", "9">>

IsDigit(ch) == ch \in Range(Digits)

DigitValue(ch) == (CHOOSE k \in 1..10 : Digits[k] = ch) - 1

RECURSIVE NatToStr(_)
\* str(n) for an integer n >= 0
NatToStr(n) ==
    IF n < 10 THEN <<Digits[n + 1]>>
    ELSE NatToStr(n \div 10) \o <<Digits[(n % 10) + 1]>>

RECURSIVE StrToNat(_)
\* the number a string of digits denotes
StrToNat(s) ==
    IF s = <<>> THEN 0
    ELSE 10 * StrToNat(SubSeq(s, 1, Len(s) - 1)) + DigitValue(s[Len(s)])

\* str(v) of a value read from a csv cell: an integer or a string
PyStr(cell) == IF cell.kind = "int" THEN NatToStr(cell.n) ELSE cell.s

Zeros(k) == [i \in 1..k |-> "0"]

\* faulty variant: the string is returned unpadded
zfill_none(s, width) == s

\* str.zfill(width): zeros are inserted on the left, after a leading sign
zfill(s, width) ==
    IF Len(s) >= width THEN s
    ELSE IF s # <<>> /\ s[1] \in {"+", "-"}
    THEN <<s[1]>> \o Zeros(width - Len(s)) \o Tail(s)
    ELSE Zeros(width - Len(s)) \o s

\* int(x): a TypeError for None, a ValueError for text that is no integer
PyInt(x) ==
    IF x = None THEN Raise("TypeError")
    ELSE IF x # <<>> /\ \A i \in 1..Len(x) : IsDigit(x[i])
    THEN Return(StrToNat(x))
    ELSE Raise("ValueError")

\* ------------------------------------------------------------------ pwc_infile
\* lines 174-180: the path of the scenarios table
pwc_infile_path(a) ==
    IF a.path # None THEN a.path
    ELSE IF a.use_parent THEN <<"pwc_scenario_path", a.region, <<"parent">>>>
    ELSE IF a.preprocessed
    THEN <<"preprocessed_path", a.class_num, a.class_name>>
    ELSE <<"pwc_scenario_path", <<"r">> \o a.region, a.class_num, a.class_name>>

\* table[table.cdl == cdl]
keep_cdl(rows, cdl) == SelectSeq(rows, LAMBDA r : r["cdl"] = cdl)

\* the body of pwc_infile, lines 181-188
pwc_infile(a, file) ==
    IF ~file.exists THEN Raise("FileNotFoundError")
    ELSE
    LET table == file.content
    IN IF a.region = None /\ "region" \notin Range(table.cols)
       THEN Raise("AttributeError")
       ELSE
       LET cols == IF "region" \in Range(table.cols) THEN table.cols
                   ELSE table.cols \o <<"region">>
           \* table['region'] = region, or the zero-filled string of each value
           rows == [i \in 1..Len(table.rows) |->
                      [c \in Range(cols) |->
                         IF c # "region" THEN table.rows[i][c]
                         ELSE IF a.region # None THEN a.region
                         ELSE zfill(PyStr(table.rows[i]["region"]), 2)]]
       IN IF ~a.use_parent THEN Return(Table(cols, rows))
          ELSE LET cdl == PyInt(a.class_num)
               IN IF cdl.kind = "raise" THEN cdl
                  ELSE Return(Table(cols, keep_cdl(rows, cdl.value)))

\* ----------------------------------------------------------------- combinations
\* Python's None as a returned value
PyNone == [none |-> TRUE]

\* an optional integer argument left at None
NoInt == [given |-> FALSE, n |-> 0]
SomeInt(n) == [given |-> TRUE, n |-> n]

\* np.int16(year)
Int16(y) == ((y + 32768) % 65536) - 32768

combo_header == <<"gridcode", "cdl", "weather_grid", "mukey", "area">>

\* pd.read_csv(combo_file, dtype=np.uint32, nrows=nrows)[header], combos['year'] = year
read_combos(table, year, nrows) ==
    LET n == IF nrows.given /\ nrows.n < Len(table.rows) THEN nrows.n
             ELSE Len(table.rows)
    IN Table(combo_header \o <<"year">>,
             [i \in 1..n |->
                [c \in Range(combo_header) \cup {"year"} |->
                   IF c = "year" THEN Int16(year) ELSE table.rows[i][c]]])

RECURSIVE combinations_loop(_, _, _, _)
\* for year in years: ...; all_combos = combos if all_combos is None else concat
combinations_loop(all_combos, years, nrows, files) ==
    IF years = <<>> THEN Return(all_combos)
    ELSE LET file == files[Head(years)]
         IN IF ~file.exists THEN Raise("FileNotFoundError")
            ELSE IF \E k \in 1..Len(combo_header) :
                        combo_header[k] \notin Range(file.content.cols)
            THEN Raise("KeyError")
            ELSE LET combos == read_combos(file.content, Head(years), nrows)
                 IN combinations_loop(
                      IF all_combos = PyNone THEN combos
                      ELSE Table(combos.cols, all_combos.rows \o combos.rows),
                      Tail(years), nrows, files)

\* the body of combinations, lines 43-50
combinations(a, files) == combinations_loop(PyNone, a.years, a.nrows, files)

\* combo_path.format(region, year) of every file the loop opens: the years up
\* to the first whose file is missing or lacks a column
combinations_reads(a, files) ==
    LET bad == {k \in 1..Len(a.years) :
                  \/ ~files[a.years[k]].exists
                  \/ ~(Range(combo_header) \subseteq Range(files[a.years[k]].content.cols))}
        m == IF bad = {} THEN Len(a.years)
             ELSE CHOOSE k \in bad : \A j \in bad : k <= j
    IN [k \in 1..m |-> <<"combo_path", a.region, a.years[k]>>]

\* ------------------------------------------------------------------------ merge
\* the missing value of a numeric column; it sorts after every key
NaN == 0 - 1

\* the columns that hold text rather than numbers
TextCols == {"state", "region", "muaggatt", "component", "chorizon", "valu"}

Fill(c) == IF c \in TextCols THEN <<"NaN">> ELSE NaN

KeyLess(x, y) == IF x = NaN THEN FALSE ELSE IF y = NaN THEN TRUE ELSE x < y

RECURSIVE SortedKeys(_)
\* the keys in ascending order, NaN last
SortedKeys(S) ==
    IF S = {} THEN <<>>
    ELSE LET m == CHOOSE x \in S : \A y \in S : x = y \/ KeyLess(x, y)
         IN <<m>> \o SortedKeys(S \ {m})

RECURSIVE Flatten(_)
Flatten(ss) == IF ss = <<>> THEN <<>> ELSE Head(ss) \o Flatten(Tail(ss))

SameKey(l, r, on) == \A k \in 1..Len(on) : l[on[k]] = r[on[k]]

\* one row of a merge: the left row's values, then the right row's, a missing
\* side filled with NaN
MergedRow(cols, l, r) ==
    [c \in Range(cols) |->
       IF c \in DOMAIN l THEN l[c] ELSE IF c \in DOMAIN r THEN r[c] ELSE Fill(c)]

NoRow == [x \in {} |-> 0]

\* pd.merge(L, R, on=on, how=how) of tables that share the key columns only:
\* left and inner keep the order of the left rows, outer sorts by the key
merge(L, R, on, how) ==
    LET cols == L.cols \o SelectSeq(R.cols, LAMBDA c : c \notin Range(L.cols))
        right(l) == SelectSeq(R.rows, LAMBDA r : SameKey(l, r, on))
        ofLeft(l) ==
            IF right(l) = <<>>
            THEN IF how = "inner" THEN <<>> ELSE <<MergedRow(cols, l, NoRow)>>
            ELSE [k \in 1..Len(right(l)) |-> MergedRow(cols, l, right(l)[k])]
        ofKey(x) ==
            LET ls == SelectSeq(L.rows, LAMBDA l : l[on[1]] = x)
                rs == SelectSeq(R.rows, LAMBDA r : r[on[1]] = x)
            IN IF ls = <<>>
               THEN [k \in 1..Len(rs) |->
                       MergedRow(cols, [c \in {on[1]} |-> x], rs[k])]
               ELSE Flatten([i \in 1..Len(ls) |-> ofLeft(ls[i])])
        keys == {L.rows[i][on[1]] : i \in 1..Len(L.rows)}
                  \cup {R.rows[i][on[1]] : i \in 1..Len(R.rows)}
    IN IF how = "outer"
       THEN LET order == SortedKeys(keys)
            IN Table(cols, Flatten([k \in 1..Len(order) |-> ofKey(order[k])]))
       ELSE Table(cols, Flatten([i \in 1..Len(L.rows) |-> ofLeft(L.rows[i])]))

\* ------------------------------------------------------------------------- crop
\* the names bound at module level in read.py: its imports and its functions
ModuleNames ==
    {"os", "re", "np", "pd", "states_nhd", "pwc_durations", "condensed_soil_path",
     "met_attributes_path", "combo_path", "crop_dates_path", "crop_params_path",
     "gen_params_path", "irrigation_path", "preprocessed_path", "pwc_scenario_path",
     "crop_group_path", "gdd_input_path", "reconstituted_path", "report", "fields",
     "test_path", "combinations", "crop", "gdd", "met", "soils", "ssurgo",
     "pwc_infile", "pwc_outfile"}

crop_stages == <<"begin", "end", "begin_active", "end_active">>

\* f'plant_{stage}' and f'harvest_{stage}'
PlantCol(stage) ==
    CASE stage = "begin" -> "plant_begin"
      [] stage = "end" -> "plant_end"
      [] stage = "begin_active" -> "plant_begin_active"
      [] stage = "end_active" -> "plant_end_active"

HarvestCol(stage) ==
    CASE stage = "begin" -> "harvest_begin"
      [] stage = "end" -> "harvest_end"
      [] stage = "begin_active" -> "harvest_begin_active"
      [] stage = "end_active" -> "harvest_end_active"

\* fields.fetch('date'): the date columns of the crop dates table
date_fields ==
    [k \in 1..(2 * Len(crop_stages)) |->
       IF k <= Len(crop_stages) THEN PlantCol(crop_stages[k])
       ELSE HarvestCol(crop_stages[k - Len(crop_stages)])]

\* the days of a year of 365 days before the first of each month
DaysBefore == <<0, 31, 59, 90, 120, 151, 181, 212, 243, 273, 304, 334>>

\* (pd.to_datetime(date, format=date_fmt) - pd.to_datetime("1900-01-01")).dt.days
\* of a date without a year, which is parsed into 1900
DaysSince1900(date) == DaysBefore[date.month] + date.day - 1

\* lines 74-75: the loop over the date fields; its body looks up date_fmt
convert_dates(table) ==
    IF date_fields = <<>> THEN Return(table)
    ELSE IF "date_fmt" \notin ModuleNames THEN Raise("NameError")
    ELSE Return(Table(table.cols,
                      [i \in 1..Len(table.rows) |->
                         [c \in Range(table.cols) |->
                            IF c \in Range(date_fields)
                            THEN DaysSince1900(table.rows[i][c])
                            ELSE table.rows[i][c]]]))

\* lines 77-78: crop_dates.loc[plant > harvest, harvest] += 365, stage by stage
adjust_harvest(table) ==
    Table(table.cols,
          [i \in 1..Len(table.rows) |->
             [c \in Range(table.cols) |->
                IF \E k \in 1..Len(crop_stages) :
                      /\ c = HarvestCol(crop_stages[k])
                      /\ table.rows[i][PlantCol(crop_stages[k])] > table.rows[i][c]
                THEN table.rows[i][c] + 365
                ELSE table.rows[i][c]]])

\* data[['evergreen', 'alt_date']].fillna(0).astype(bool)
fill_bool(table) ==
    Table(table.cols,
          [i \in 1..Len(table.rows) |->
             [c \in Range(table.cols) |->
                IF c \in {"evergreen", "alt_date"}
                THEN table.rows[i][c] # NaN /\ table.rows[i][c] # 0
                ELSE table.rows[i][c]]])

\* the body of crop, lines 60-96
crop(a, files) ==
    IF \E f \in {"crop_group", "crop_params", "crop_dates"} : ~files[f].exists
    THEN Raise("FileNotFoundError")
    ELSE
    LET crop_index == files["crop_group"].content
        crop_params == files["crop_params"].content
        converted == convert_dates(files["crop_dates"].content)
    IN IF converted.kind = "raise" THEN converted
       ELSE IF \E f \in {"irrigation", "gen_params"} : ~files[f].exists
       THEN Raise("FileNotFoundError")
       ELSE
       LET crop_dates == adjust_harvest(converted.value)
           irrigation_data == files["irrigation"].content
           \* group_params[group_params.region == region]
           group_params ==
               Table(files["gen_params"].content.cols,
                     SelectSeq(files["gen_params"].content.rows,
                               LAMBDA r : r["region"] = a.region))
           data == merge(merge(merge(merge(crop_index, crop_params,
                                           <<"cdl", "cdl_alias">>, "left"),
                                     crop_dates, <<"cdl", "cdl_alias">>, "left"),
                               irrigation_data, <<"cdl_alias", "state">>, "left"),
                         group_params, <<"pwc_class">>, "left")
       IN Return(fill_bool(data))

\* the files crop opens before it returns or raises
crop_reads(a, files) ==
    LET order == <<"crop_group", "crop_params", "crop_dates", "irrigation", "gen_params">>
        stop == IF ~files["crop_group"].exists THEN 1
                ELSE IF ~files["crop_params"].exists THEN 2
                ELSE IF ~files["crop_dates"].exists THEN 3
                ELSE IF convert_dates(files["crop_dates"].content).kind = "raise" THEN 3
                ELSE IF ~files["irrigation"].exists THEN 4
                ELSE 5
    IN SubSeq(order, 1, stop)

\* ------------------------------------------------------------------------ soils
\* from parameters import states_nhd: the states of each hydroregion
states_nhd ==
    [r \in {<<"17">>, <<"18">>} |->
       IF r = <<"18">> THEN <<<<"CA">>, <<"NV">>>> ELSE <<<<"OR">>>>]

\* fields.convert: external column names to internal ones
fields_convert == [c \in {"hzdepb_r"} |-> "horizon_bottom"]

\* DataFrame.rename(columns=convert): the columns convert names are renamed
rename(table, convert) ==
    LET new(c) == IF c \in DOMAIN convert THEN convert[c] ELSE c
        old(c) == CHOOSE d \in Range(table.cols) : new(d) = c
    IN Table([k \in 1..Len(table.cols) |-> new(table.cols[k])],
             [i \in 1..Len(table.rows) |->
                [c \in {new(d) : d \in Range(table.cols)} |-> table.rows[i][old(c)]]])

\* faulty variant: a given state is used even when a region is given
region_states_state_first(a) ==
    IF a.state # None THEN Return(<<a.state>>)
    ELSE IF a.region \in DOMAIN states_nhd THEN Return(states_nhd[a.region])
    ELSE Raise("KeyError")

\* lines 132-135
region_states(a) ==
    IF a.region = None /\ a.state # None THEN Return(<<a.state>>)
    ELSE IF a.region \in DOMAIN states_nhd THEN Return(states_nhd[a.region])
    ELSE Raise("KeyError")

\* ssurgo(state, name): the condensed table of that name for the state
ssurgo(files, state, name) == files[<<state, name>>].content

\* state_table['state'] = state
tag_state(table, state) ==
    Table(table.cols \o <<"state">>,
          [i \in 1..Len(table.rows) |->
             [c \in Range(table.cols) \cup {"state"} |->
                IF c = "state" THEN state ELSE table.rows[i][c]]])

\* lines 139-143: muaggatt, component and chorizon of one state, outer-joined
state_table(files, state) ==
    tag_state(merge(merge(ssurgo(files, state, "muaggatt"),
                          ssurgo(files, state, "component"), <<"mukey">>, "outer"),
                    ssurgo(files, state, "chorizon"), <<"cokey">>, "outer"),
              state)

\* the body of soils, lines 130-148
soils(a, files) ==
    LET states == region_states(a)
    IN IF states.kind = "raise" THEN states
       ELSE
       LET valu_table == ssurgo(files, <<>>, "valu")
           state_tables == [k \in 1..Len(states.value) |->
                              state_table(files, states.value[k])]
           \* pd.concat(state_tables, axis=0)
           soil_data == Table(state_tables[1].cols,
                              Flatten([k \in 1..Len(state_tables) |->
                                         state_tables[k].rows]))
       IN Return(rename(merge(soil_data, valu_table, <<"mukey">>, "inner"),
                        fields_convert))

\* the tables soils reads, in the order it reads them
soils_reads(a) ==
    LET states == region_states(a)
        names == <<"muaggatt", "component", "chorizon">>
    IN IF states.kind = "raise" THEN <<>>
       ELSE <<<<<<>>, "valu">>>>
            \o Flatten([k \in 1..Len(states.value) |->
                          [n \in 1..Len(names) |-> <<states.value[k], names[n]>>]])

\* ----------------------------------------------------------- input domains
Bool == {TRUE, FALSE}

RunIds == {<<"b", "_", "s", "_", "1">>, <<"b", "_", "t", "_", "2">>,
           <<"b", "_", "s">>, <<"b", "_", "_", "s", "_", "1">>}

LineNums == {MinInt32, 2, 3}

\* the concentrations of one line, one per duration
Concs == {[k \in 1..NumDurations |-> 0], [k \in 1..NumDurations |-> 10 + k]}

\* one line of a PWC output file: line number, batch run id, one
\* concentration per duration
OutLines ==
    {<<l, r>> \o c : l \in LineNums, r \in RunIds,
                     c \in Concs}

\* a reconstituted (preprocessed) output file: a csv with its own header
PreTables ==
    {Table(pwc_id_fields \o pwc_durations,
           [i \in 1..Len(ls) |->
              [c \in Range(pwc_id_fields \o pwc_durations) |->
                 ls[i][CHOOSE k \in 1..(2 + NumDurations) :
                          (pwc_id_fields \o pwc_durations)[k] = c]]]) :
       ls \in SeqsUpTo({<<3, <<"b", "_", "s", "_", "1">>>> \o [k \in 1..NumDurations |-> 7],
                        <<2, <<"b", "_", "t", "_", "2">>>> \o [k \in 1..NumDurations |-> 0]},
                       MaxRows)}

OutfileArgs ==
    [preprocessed : Bool, in_file : {None, <<"out.txt">>},
     region : {<<"0", "7">>}, class_num : {<<"1">>}, class_name : {<<"c">>},
     koc : {<<"k">>}]

InitOutfile ==
    /\ fn = "pwc_outfile"
    /\ args \in OutfileArgs
    /\ fs \in IF args.preprocessed
              THEN {Missing} \cup {File(t) : t \in PreTables}
              ELSE {Missing} \cup {File(ls) : ls \in SeqsUpTo(OutLines, MaxRows)}

IntCell(n) == [kind |-> "int", n |-> n, s |-> <<>>]
StrCell(t) == [kind |-> "str", n |-> 0, s |-> t]

RegionCells == {IntCell(7), IntCell(12), StrCell(<<"1", "0", "U">>), StrCell(<<"3">>)}

Cdls == {1, 2}

\* a scenarios table with its region column, and one without
ScenarioTables ==
    {Table(<<"cdl", "region", "area">>, rs) :
       rs \in SeqsUpTo({[c \in {"cdl", "region", "area"} |->
                           IF c = "cdl" THEN x[1] ELSE IF c = "region" THEN x[2] ELSE 5] :
                          x \in Cdls \X RegionCells}, MaxRows)}
    \cup
    {Table(<<"cdl", "area">>, rs) :
       rs \in SeqsUpTo({[c \in {"cdl", "area"} |-> IF c = "cdl" THEN x ELSE 5] :
                          x \in Cdls}, MaxRows)}

InfileArgs ==
    [class_num : {None, <<"2">>, <<"x">>}, class_name : {<<"c">>},
     region : {None, <<"0", "7">>}, use_parent : Bool, preprocessed : Bool,
     path : {None, <<"in.csv">>}]

InitInfile ==
    /\ fn = "pwc_infile"
    /\ args \in InfileArgs
    /\ fs \in {Missing} \cup {File(t) : t \in ScenarioTables}

Years == {2015, 2016}

\* a combinations file: the five columns read and one that is not
ComboTables ==
    {Table(combo_header \o <<"huc12">>, rs) :
       rs \in SeqsUpTo({[c \in Range(combo_header) \cup {"huc12"} |->
                           IF c = "gridcode" THEN g
                           ELSE IF c = "mukey" THEN 10 + g ELSE 5] : g \in {1, 2}},
                       MaxRows)}
    \cup {Table(<<"gridcode", "cdl", "weather_grid", "mukey">>,
                <<[c \in {"gridcode", "cdl", "weather_grid", "mukey"} |-> 5]>>)}

CombinationsArgs ==
    [region : {<<"0", "7">>}, years : SeqsUpTo(Years, MaxYears),
     nrows : {NoInt, SomeInt(0), SomeInt(1)}]

InitCombinations ==
    /\ fn = "combinations"
    /\ args \in CombinationsArgs
    /\ fs \in [Years -> {Missing} \cup {File(t) : t \in ComboTables}]

Dates == {[month |-> 1, day |-> 15], [month |-> 6, day |-> 1], [month |-> 11, day |-> 20]}

CropDateCols == <<"cdl", "cdl_alias", "alt_date">> \o date_fields

\* a crop dates table: every plant date is p and every harvest date h, with
\* the two swapped for the active stages
CropDateTables ==
    {Table(CropDateCols, rs) :
       rs \in SeqsUpTo({[c \in Range(CropDateCols) |->
                           IF c \in {"cdl", "cdl_alias"} THEN 1
                           ELSE IF c = "alt_date" THEN 0
                           ELSE IF c \in {"plant_begin", "plant_end",
                                          "harvest_begin_active", "harvest_end_active"}
                           THEN x[1] ELSE x[2]] : x \in Dates \X Dates},
                       MaxRows)}

OneRow(cols, r) == Table(cols, <<[c \in Range(cols) |-> r[c]]>>)

CropFiles ==
    {[f \in {"crop_group", "crop_params", "crop_dates", "irrigation", "gen_params"} |->
        CASE f = "crop_group" ->
               File(OneRow(<<"cdl", "cdl_alias", "pwc_class", "state">>,
                           [cdl |-> 1, cdl_alias |-> 1, pwc_class |-> 10,
                            state |-> <<"CA">>]))
          [] f = "crop_params" ->
               File(OneRow(<<"cdl", "cdl_alias", "evergreen">>,
                           [cdl |-> 1, cdl_alias |-> 1, evergreen |-> 1]))
          [] f = "crop_dates" -> d
          [] f = "irrigation" ->
               File(OneRow(<<"cdl_alias", "state", "irr_pct">>,
                           [cdl_alias |-> 1, state |-> <<"CA">>, irr_pct |-> 50]))
          [] f = "gen_params" ->
               File(OneRow(<<"region", "pwc_class", "cn_ag">>,
                           [region |-> <<"0", "7">>, pwc_class |-> 10, cn_ag |-> 80]))] :
       d \in {Missing} \cup {File(t) : t \in CropDateTables}}

InitCrop ==
    /\ fn = "crop"
    /\ args \in [region : {<<"0", "7">>, <<"1", "0">>}]
    /\ fs \in CropFiles

SoilStates == {<<"CA">>, <<"NV">>, <<"OR">>}

\* the tables of one state, of n rows; every row names, in the column called
\* after its table, the state whose file it stands in
MuaggattTable(st, n) ==
    Table(<<"mukey", "muaggatt">>,
          [i \in 1..n |-> [c \in {"mukey", "muaggatt"} |->
                             IF c = "mukey" THEN i ELSE st]])

ComponentTable(st, n) ==
    Table(<<"mukey", "cokey", "component">>,
          [i \in 1..n |-> [c \in {"mukey", "cokey", "component"} |->
                             IF c = "mukey" THEN 2 * i - 1
                             ELSE IF c = "cokey" THEN 9 + i ELSE st]])

ChorizonTable(st, n) ==
    Table(<<"cokey", "hzdepb_r", "chorizon">>,
          [i \in 1..n |-> [c \in {"cokey", "hzdepb_r", "chorizon"} |->
                             IF c = "cokey" THEN 8 + 2 * i
                             ELSE IF c = "hzdepb_r" THEN 30 * i ELSE st]])

ValuTable(n) ==
    Table(<<"mukey", "valu">>,
          [i \in 1..n |-> [c \in {"mukey", "valu"} |->
                             IF c = "mukey" THEN i ELSE <<"US">>]])

\* the numbers of rows of a state's muaggatt, component and chorizon tables
SoilSizes == {<<1, 1, 1>>, <<2, 1, 2>>, <<1, 2, 1>>, <<2, 2, 2>>}

SoilFiles ==
    {[p \in (SoilStates \X {"muaggatt", "component", "chorizon"})
              \cup {<<<<>>, "valu">>} |->
        File(IF p[2] = "valu" THEN ValuTable(v)
             ELSE IF p[2] = "muaggatt" THEN MuaggattTable(p[1], size[p[1]][1])
             ELSE IF p[2] = "component" THEN ComponentTable(p[1], size[p[1]][2])
             ELSE ChorizonTable(p[1], size[p[1]][3]))] :
       v \in {1, 3}, size \in [SoilStates -> SoilSizes]}

SoilsArgs ==
    [mode : {"sam"}, region : {None} \cup DOMAIN states_nhd,
     state : {None, <<"CA">>, <<"OR">>}]

InitSoils ==
    /\ fn = "soils"
    /\ args \in SoilsArgs
    /\ fs \in SoilFiles

\* ------------------------------------------------------------------- actions
Init ==
    /\ pc = "call"
    /\ inner = NoOutcome
    /\ result = NoOutcome
    /\ reads = <<>>
    /\ \/ InitOutfile
       \/ InitInfile
       \/ InitCombinations
       \/ InitCrop
       \/ InitSoils

CallPwcOutfile ==
    /\ pc = "call"
    /\ fn = "pwc_outfile"
    /\ inner' = pwc_outfile(args, fs)
    /\ result' = test_path(inner')
    /\ reads' = <<pwc_outfile_path(args)>>
    /\ pc' = "done"
    /\ UNCHANGED <<fn, args, fs>>

CallPwcInfile ==
    /\ pc = "call"
    /\ fn = "pwc_infile"
    /\ inner' = pwc_infile(args, fs)
    /\ result' = test_path(inner')
    /\ reads' = <<pwc_infile_path(args)>>
    /\ pc' = "done"
    /\ UNCHANGED <<fn, args, fs>>

CallCombinations ==
    /\ pc = "call"
    /\ fn = "combinations"
    /\ result' = combinations(args, fs)
    /\ reads' = combinations_reads(args, fs)
    /\ pc' = "done"
    /\ UNCHANGED <<fn, args, fs, inner>>

CallCrop ==
    /\ pc = "call"
    /\ fn = "crop"
    /\ result' = crop(args, fs)
    /\ reads' = crop_reads(args, fs)
    /\ pc' = "done"
    /\ UNCHANGED <<fn, args, fs, inner>>

CallSoils ==
    /\ pc = "call"
    /\ fn = "soils"
    /\ result' = soils(args, fs)
    /\ reads' = soils_reads(args)
    /\ pc' = "done"
    /\ UNCHANGED <<fn, args, fs, inner>>

Next ==
    \/ CallPwcOutfile
    \/ CallPwcInfile
    \/ CallCombinations
    \/ CallCrop
    \/ CallSoils

Spec == Init /\ [][Next]_vars

\* ==================================================================== claims
Done(f) == pc = "done" /\ fn = f

\* pwc_outfile returned the reshaped table of a raw output file
OutReshaped == Done("pwc_outfile") /\ ~args.preprocessed /\ result.kind = "return"

RECURSIVE JoinParts(_, _)
\* the parts put together again around the separator
JoinParts(parts, sep) ==
    IF Len(parts) = 1 THEN parts[1]
    ELSE parts[1] \o <<sep>> \o JoinParts(Tail(parts), sep)

\* the run id columns of a result row, the None fill dropped
RunIdParts(r) ==
    SelectSeq(<<r["bunk"]>> \o [k \in 1..Len(pwc_run_id) |-> r[pwc_run_id[k]]],
              LAMBDA x : x # None)

\* the result holds Len(lines) * |pwc_durations| rows, no duration is a column
\* of it, and Match(line, k, row) pairs every line and duration with as many
\* result rows as the file holds lines equal to it
LongForm(Match(_, _, _)) ==
    LET lines == fs.content
        out == result.value
    IN /\ Len(out.rows) = Len(lines) * NumDurations
       /\ \A k \in 1..NumDurations : pwc_durations[k] \notin Range(out.cols)
       /\ \A i \in 1..Len(lines), k \in 1..NumDurations :
            Cardinality({j \in 1..Len(out.rows) : Match(lines[i], k, out.rows[j])})
              = Cardinality({h \in 1..Len(lines) :
                               /\ lines[h][1] = lines[i][1]
                               /\ lines[h][2] = lines[i][2]
                               /\ lines[h][2 + k] = lines[i][2 + k]})

\* C1 as stated: pwc_outfile with preprocessed=False turns every input row and
\* duration d into one result row with duration d, conc the value the row held
\* in column d, and the identifier columns (line_num, run_id) as in the input row
C1_IdentifiersAsInFile ==
    OutReshaped =>
      LongForm(LAMBDA line, k, r :
                 /\ r["duration"] = pwc_durations[k]
                 /\ r["conc"] = line[2 + k]
                 /\ "line_num" \in DOMAIN r /\ r["line_num"] = line[1]
                 /\ "run_id" \in DOMAIN r /\ r["run_id"] = line[2])

\* C1 amended: every input row and duration d gives one result row with
\* duration d and conc the value the row held in column d; its line_num is the
\* input row's less one and its bunk and run id columns are the '_'-separated
\* parts of the input row's run_id; the result has rows x |pwc_durations| rows
\* and no duration column remains
C1_LongForm ==
    OutReshaped =>
      LongForm(LAMBDA line, k, r :
                 /\ r["duration"] = pwc_durations[k]
                 /\ r["conc"] = line[2 + k]
                 /\ "run_id" \notin DOMAIN r
                 /\ IF r["line_num"] = MaxInt32 THEN line[1] = MinInt32
                    ELSE r["line_num"] + 1 = line[1]
                 /\ JoinParts(RunIdParts(r), "_") = line[2])

C1_Witness ==
    /\ OutReshaped
    /\ Len(fs.content) = MaxRows
    /\ fs.content[1][3] # fs.content[1][4]
    /\ fs.content[1][2] # fs.content[2][2]

\* C9: with preprocessed=False every result row derived from an input row
\* carries that row's line_num minus 1 as a 32-bit integer, on each of its
\* |pwc_durations| long-form rows; with preprocessed=True the file is returned
\* as read: line_num as in the file, run_id unsplit, the durations still columns
C9_LineNumAdjusted ==
    /\ OutReshaped =>
         LET lines == fs.content
             n == Len(lines)
         IN \A i \in 1..n, k \in 1..NumDurations :
              LET got == result.value.rows[(k - 1) * n + i]["line_num"]
              IN IF got = MaxInt32 THEN lines[i][1] = MinInt32
                 ELSE got + 1 = lines[i][1]
    /\ (Done("pwc_outfile") /\ args.preprocessed /\ result.kind = "return") =>
         /\ result.value.cols = fs.content.cols
         /\ result.value.rows = fs.content.rows
         /\ "run_id" \in Range(result.value.cols)
         /\ "duration" \notin Range(result.value.cols)
         /\ \A k \in 1..NumDurations : pwc_durations[k] \in Range(result.value.cols)

C9_Witness ==
    /\ OutReshaped
    /\ \E i \in 1..Len(fs.content) : fs.content[i][1] = MinInt32
    /\ \E i \in 1..Len(fs.content) : fs.content[i][1] = 3
    /\ \E j \in 1..Len(result.value.rows) : result.value.rows[j]["line_num"] = 2

\* C3: a function decorated with test_path returns what the undecorated
\* function returns and raises what it raises
C3_PassThrough ==
    (pc = "done" /\ fn \in {"pwc_infile", "pwc_outfile"}) =>
      /\ result.kind = inner.kind
      /\ result.kind = "return" => result.value = inner.value
      /\ result.kind = "raise" => result.exc = inner.exc

C3_Witness ==
    /\ Done("pwc_infile")
    /\ inner.kind = "raise"
    /\ result.kind = "raise"
    /\ result.exc = "TypeError"

\* C2: the table pwc_infile returns contains a line_num field
C2_LineNumAdded ==
    (Done("pwc_infile") /\ result.kind = "return") =>
      "line_num" \in Range(result.value.cols)

\* the file rows pwc_infile keeps, by position
KeptIndex(rows) ==
    {i \in 1..Len(rows) :
       args.use_parent => rows[i]["cdl"] = StrToNat(args.class_num)}

\* s is v with zeros put before it, up to 2 characters
PaddedTo2(s, v) ==
    /\ Len(s) = (IF Len(v) < 2 THEN 2 ELSE Len(v))
    /\ SubSeq(s, Len(s) - Len(v) + 1, Len(s)) = v
    /\ \A i \in 1..(Len(s) - Len(v)) : s[i] = "0"

\* the text of a csv cell: the decimal digits of an integer, the string itself
CellText(cell, v) ==
    IF cell.kind = "str" THEN v = cell.s
    ELSE /\ v # <<>>
         /\ \A i \in 1..Len(v) : IsDigit(v[i])
         /\ StrToNat(v) = cell.n
         /\ (Len(v) > 1 => v[1] # "0")

C6_CombinationsTable ==
    (Done("combinations") /\ result.kind # "raise") =>
      /\ result.kind = "return"
      /\ "cols" \in DOMAIN result.value
      /\ result.value.cols = combo_header \o <<"year">>
      /\ LET Count(y) == IF args.nrows.given /\ args.nrows.n < Len(fs[y].content.rows)
                         THEN args.nrows.n ELSE Len(fs[y].content.rows)
             Before(k) == LET Sum[j \in 0..Len(args.years)] ==
                                IF j = 0 THEN 0 ELSE Sum[j - 1] + Count(args.years[j])
                          IN Sum[k - 1]
         IN /\ Len(result.value.rows) = Before(Len(args.years) + 1)
            /\ \A k \in 1..Len(args.years) : \A i \in 1..Count(args.years[k]) :
                 LET r == result.value.rows[Before(k) + i]
                 IN /\ r["year"] = args.years[k]
                    /\ \A h \in 1..Len(combo_header) :
                         r[combo_header[h]]
                           = fs[args.years[k]].content.rows[i][combo_header[h]]

\* the states whose tables soils is to read
ExpectedStates ==
    IF args.region = None /\ args.state # None THEN {args.state}
    ELSE Range(states_nhd[args.region])

ReadAt(st, name) == {k \in 1..Len(reads) : reads[k] = <<st, name>>}

\* C7: soils reads the tables of [state] when region is None and a state is
\* given and of states_nhd[region] otherwise, every state once, muaggatt then
\* component then chorizon, and every returned row's state is the state whose
\* tables the row came from
C7_SoilsStates ==
    (Done("soils") /\ result.kind = "return") =>
      /\ \A st \in SoilStates : \A name \in {"muaggatt", "component", "chorizon"} :
           Cardinality(ReadAt(st, name)) = (IF st \in ExpectedStates THEN 1 ELSE 0)
      /\ \A st \in ExpectedStates :
           \E k \in 1..Len(reads) :
              /\ ReadAt(st, "muaggatt") = {k}
              /\ ReadAt(st, "component") = {k + 1}
              /\ ReadAt(st, "chorizon") = {k + 2}
      /\ \A i \in 1..Len(result.value.rows) :
           LET r == result.value.rows[i]
           IN /\ r["state"] \in ExpectedStates
              /\ \A c \in {"muaggatt", "component", "chorizon"} :
                   r[c] \in {r["state"], <<"NaN">>}
              /\ \E c \in {"muaggatt", "component", "chorizon"} : r[c] = r["state"]

C7_Witness ==
    /\ Done("soils")
    /\ result.kind = "return"
    /\ args.region = <<"18">>
    /\ args.state = <<"OR">>
    /\ \E i \in 1..Len(result.value.rows) : result.value.rows[i]["state"] = <<"NV">>
    /\ \E i \in 1..Len(result.value.rows) :
          /\ result.value.rows[i]["state"] = <<"CA">>
          /\ result.value.rows[i]["component"] = <<"NaN">>

\* crop was called with all its files in place and crop dates to convert
CropDatesRead ==
    /\ Done("crop")
    /\ \A f \in DOMAIN fs : fs[f].exists
    /\ fs["crop_dates"].content.rows # <<>>

\* C5: crop converts every date field of the crop dates table to a number of
\* days and returns the combined table; the conversion completes with the
\* names the module defines or imports
C5_DatesConverted ==
    CropDatesRead =>
      /\ result.kind = "return"
      /\ \A i \in 1..Len(result.value.rows) : \A k \in 1..Len(date_fields) :
           result.value.rows[i][date_fields[k]] \in 0..(2 * 365)

\* C4: in the table crop returns, every stage whose plant day was after its
\* harvest day has 365 added to the harvest day, every other harvest day and
\* every plant day is the day of its date, and harvest >= plant
C4_HarvestAfterPlant ==
    CropDatesRead =>
      /\ result.kind = "return"
      /\ Len(result.value.rows) = Len(fs["crop_dates"].content.rows)
      /\ \A i \in 1..Len(result.value.rows) : \A k \in 1..Len(crop_stages) :
           LET in == fs["crop_dates"].content.rows[i]
               out == result.value.rows[i]
               plant == DaysSince1900(in[PlantCol(crop_stages[k])])
               harvest == DaysSince1900(in[HarvestCol(crop_stages[k])])
           IN /\ out[PlantCol(crop_stages[k])] = plant
              /\ out[HarvestCol(crop_stages[k])]
                   = (IF plant > harvest THEN harvest + 365 ELSE harvest)
              /\ out[HarvestCol(crop_stages[k])] >= out[PlantCol(crop_stages[k])]

====
